---------------------------- MODULE Spec2Model ----------------------------
(***************************************************************************)
(* IPCounter: exact count of the distinct IPv4 addresses of a text file.   *)
(*                                                                         *)
(*   concurrent/concurrent.go  sharded bitset, producer / worker pool /    *)
(*                             aggregator pipeline                         *)
(*   bucket/bitbucket.go       two passes over 256 on-disk partitions      *)
(*   main (unnamed/part_000)   selects the engine                          *)
(*                                                                         *)
(* utils.ParseIPv4 and the naive engine are not among the sources; they    *)
(* are modelled from the specification text (sections 4.1 and 4.2).        *)
(*                                                                         *)
(* Encodings.  A byte of text is a one-character string.  A uint32 address *)
(* is a record [hi, lo] of two 16-bit halves (an address may exceed the    *)
(* largest integer the model checker can hold).  A uint32 bitset word is   *)
(* the set of its set bit positions, a subset of 0..31.  A zero-filled     *)
(* slice of words is a function defined on the indexes of its non-zero     *)
(* words only.                                                             *)
(***************************************************************************)
EXTENDS Integers, Sequences, FiniteSets, TLC

(***************************************************************************)
(* Bounds of the model.                                                    *)
(***************************************************************************)
\* lines per generated input file
MaxLines == 2
\* runtime.NumCPU() ranges over 1..MaxWorkers
MaxWorkers == 2
\* largest number of bytes one Read of the input delivers (bytesPerChunk,
\* 2 MiB in the source, scaled)
BlockCap == 9
\* capacity in bytes of a partition's bufio.Writer (writeBufSize, 256 KiB in
\* the source, scaled)
WriteBufCap == 4

(***************************************************************************)
(* Generic helpers.                                                        *)
(***************************************************************************)
Min(a, b) == IF a < b THEN a ELSE b

\* s[from..to), 0-based like a Go slice expression s[from:to]
Slice(s, from, to) == SubSeq(s, from + 1, to)

\* value at key k of a zero-filled sparse array
At(m, k, zero) == IF k \in DOMAIN m THEN m[k] ELSE zero

Put(m, k, v) == [x \in DOMAIN m \cup {k} |-> IF x = k THEN v ELSE m[x]]

(***************************************************************************)
(* Text: bytes.TrimSpace, bytes.LastIndexByte, bytes.IndexByte.            *)
(***************************************************************************)
NL == "\n"

WhiteSpace == {" ", "\t", "\r", "\n"}

\* s without its leading and trailing white space
TrimSpace(s) ==
  LET keep == {i \in 1..Len(s) : s[i] \notin WhiteSpace}
  IN  IF keep = {} THEN <<>>
      ELSE SubSeq(s, CHOOSE i \in keep : \A j \in keep : i <= j,
                     CHOOSE i \in keep : \A j \in keep : j <= i)

\* 0-based index of the last c in s, -1 when there is none
LastIndexByte(s, c) ==
  LET hits == {i \in 1..Len(s) : s[i] = c}
  IN  IF hits = {} THEN -1 ELSE (CHOOSE i \in hits : \A j \in hits : j <= i) - 1

\* 0-based index of the first c in s at or after 0-based position from, -1 when none
IndexByteFrom(s, from, c) ==
  LET hits == {i \in (from + 1)..Len(s) : s[i] = c}
  IN  IF hits = {} THEN -1 ELSE (CHOOSE i \in hits : \A j \in hits : i <= j) - 1

(***************************************************************************)
(* uint32 addresses as two 16-bit halves.                                  *)
(***************************************************************************)
U32(hi, lo) == [hi |-> hi, lo |-> lo]

\* x % d and x / d for a divisor d of 2^16
U32Mod(x, d) == x.lo % d
U32Div(x, d) == x.hi * (65536 \div d) + (x.lo \div d)
\* x >> 24 and x & 0x00FFFFFF
U32Top(x) == x.hi \div 256
U32Low24(x) == (x.hi % 256) * 65536 + x.lo

(***************************************************************************)
(* utils.ParseIPv4, from section 4.1 of the specification: exactly four    *)
(* dot-separated decimal octets, each 0..255, nothing else.                *)
(***************************************************************************)
Digits == <<"0", "1", "2", "3", "4", "5", "6", "7", "8", "9">>

IsDigit(c) == \E i \in 1..10 : Digits[i] = c

DigitVal(c) == (CHOOSE i \in 1..10 : Digits[i] = c) - 1

\* the positions of the dots of s, with 0 and Len(s) + 1 as the outer ends
DotEnds(s) == {0, Len(s) + 1} \cup {i \in 1..Len(s) : s[i] = "."}

\* the dot-separated segments of s, in order
SplitDot(s) ==
  [k \in 1..(Cardinality(DotEnds(s)) - 1) |->
     LET from == CHOOSE i \in DotEnds(s) : Cardinality({j \in DotEnds(s) : j < i}) = k - 1
         to == CHOOSE i \in DotEnds(s) : Cardinality({j \in DotEnds(s) : j < i}) = k
     IN  SubSeq(s, from + 1, to - 1)]

\* the value of a run of decimal digits
DecVal(seg) ==
  LET val[i \in 0..Len(seg)] == IF i = 0 THEN 0 ELSE val[i - 1] * 10 + DigitVal(seg[i])
  IN  val[Len(seg)]

IsOctet(seg) ==
  /\ Len(seg) \in 1..3
  /\ \A i \in 1..Len(seg) : IsDigit(seg[i])
  /\ DecVal(seg) <= 255

\* the address of four octets, or the failure of anything else
ParseSegs(segs) ==
  IF Len(segs) = 4 /\ \A i \in 1..4 : IsOctet(segs[i])
    THEN [ok |-> TRUE,
          ip |-> U32(DecVal(segs[1]) * 256 + DecVal(segs[2]),
                     DecVal(segs[3]) * 256 + DecVal(segs[4]))]
    ELSE [ok |-> FALSE, ip |-> U32(0, 0)]

\* (the segments are computed once and then examined)
ParseIPv4(line) == CHOOSE r \in {ParseSegs(segs) : segs \in {SplitDot(line)}} : TRUE

(***************************************************************************)
(* Input files: up to MaxLines lines drawn from Lines, separated by "\n",  *)
(* the last one with or without a final "\n".                              *)
(***************************************************************************)
LineA == <<"1", ".", "2", ".", "3", ".", "4">>
\* the low 24 bits of LineA under another top byte
LineB == <<"2", ".", "2", ".", "3", ".", "4">>
\* three octets only
LineBad == <<"1", ".", "2", ".", "3">>
LineBlank == <<>>
\* LineA as a CRLF file holds it
LineACr == <<"1", ".", "2", ".", "3", ".", "4", "\r">>

Lines == {LineA, LineB, LineBad, LineBlank}

RECURSIVE JoinLines(_)
JoinLines(ls) ==
  IF ls = <<>> THEN <<>>
  ELSE IF Len(ls) = 1 THEN ls[1]
  ELSE ls[1] \o <<NL>> \o JoinLines(Tail(ls))

LineSeqs == UNION {[1..n -> Lines] : n \in 0..MaxLines}

GenFiles == {JoinLines(ls) : ls \in LineSeqs} \cup {JoinLines(ls) \o <<NL>> : ls \in LineSeqs}

\* the scenario of section 8: "1.2.3.4", "1.2.3.4", "5.6.7.8", "not-an-ip", ""
LineC == <<"5", ".", "6", ".", "7", ".", "8">>
LineNotAnIp == <<"n", "o", "t", "-", "a", "n", "-", "i", "p">>
ExampleFile == JoinLines(<<LineA, LineA, LineC, LineNotAnIp, LineBlank>>)

\* a CRLF file with a duplicate
CrlfFile == JoinLines(<<LineACr, LineACr, LineBlank>>)

Files == GenFiles \cup {ExampleFile, CrlfFile}

\* the lines of a file: the byte runs between newlines
RECURSIVE SplitLines(_)
SplitLines(f) ==
  IF IndexByteFrom(f, 0, NL) = -1 THEN <<f>>
  ELSE <<Slice(f, 0, IndexByteFrom(f, 0, NL))>>
         \o SplitLines(Slice(f, IndexByteFrom(f, 0, NL) + 1, Len(f)))

\* the distinct valid addresses of a file
Addresses(f) ==
  LET ls == SplitLines(f)
  IN  {ParseIPv4(TrimSpace(ls[i])).ip :
         i \in {j \in 1..Len(ls) : ParseIPv4(TrimSpace(ls[j])).ok}}

(***************************************************************************)
(* The naive engine, from section 4.2 of the specification: line by line,  *)
(* every non-empty line that decodes is inserted into a set; the result is *)
(* the set's cardinality.                                                  *)
(***************************************************************************)
RECURSIVE NaiveInsertAll(_, _)
NaiveInsertAll(ls, set) ==
  IF ls = <<>> THEN set
  ELSE LET line == TrimSpace(Head(ls))
           p == ParseIPv4(line)
       IN  NaiveInsertAll(Tail(ls),
                          IF Len(line) # 0 /\ p.ok THEN set \cup {p.ip} ELSE set)

NaiveCount(f) == Cardinality(NaiveInsertAll(SplitLines(f), {}))

(***************************************************************************)
(* Program constants of the concurrent engine.                             *)
(***************************************************************************)
numShards == 16384
\* bitsPerShard = (maxIPv4 + numShards - 1) / numShards with maxIPv4 = 2^32 = 65536 * 65536
bitsPerShard == 65536 * (65536 \div numShards) + ((numShards - 1) \div numShards)
wordsPerShard == (bitsPerShard + 31) \div 32

VARIABLES
  file,         \* the bytes of the input file
  impl,         \* the engine main selected: "naive", "concurrent" or "bucket"
  numWorkers,   \* runtime.NumCPU()
  repeat,       \* how many times the caller calls the engine: 1 or 2
  calls,        \* calls of CountUniqueIPs started so far
  results,      \* what the calls returned, in order: [count, err]
  shards,       \* BitsetCounter.shards: shard index -> words, the allocated shards only
  prod,         \* the calling goroutine (producer) of concurrent.CountUniqueIPs
  chunkChan,    \* [buf, closed]
  resultChan,   \* [buf, closed]
  wg,           \* sync.WaitGroup counter of the workers
  wk,           \* the worker goroutines
  agg,          \* the aggregator goroutine: [pc, total]
  readFailed,   \* a Read of the input by the concurrent engine returned a non-EOF error
  bk,           \* bucket.CountUniqueIPs: its position, loop index, handles, total
  writers,      \* its bufio.Writers, the non-empty or failed ones only: [buf, err]
  disk,         \* the bytes of its partition files, the non-empty ones only
  writeFailed   \* a write to a partition file by the bucket engine failed

env == <<file, impl, numWorkers, repeat>>
cvars == <<shards, prod, chunkChan, resultChan, wg, wk, agg, readFailed>>
bvars == <<bk, writers, disk, writeFailed>>
vars == <<env, calls, results, cvars, bvars>>

Workers == 1..numWorkers

IdleProd == [pc |-> "idle", pos |-> 0, carry |-> <<>>, chunk |-> <<>>,
             rest |-> <<>>, eof |-> FALSE]
IdleWorker == [pc |-> "none", chunk |-> <<>>, start |-> 0, count |-> 0,
               sh |-> 0, off |-> 0, old |-> {}]

(***************************************************************************)
(* concurrent.go: shard, setBit.                                           *)
(***************************************************************************)
\* the allocation without sync.Once: fresh words on every call
EnsureEveryCall(ss, sh) == Put(ss, sh, <<>>)

\* shard.ensure: sync.Once allocates the zero-filled words on the first call only
Ensure(ss, sh) == IF sh \in DOMAIN ss THEN ss ELSE Put(ss, sh, <<>>)

\* atomic.LoadUint32(&s.words[wordIdx])
LoadWord(ss, sh, off) == At(ss[sh], off \div 32, {})

\* a test of the bit next to the one setBit sets
BitIsSetNextBit(old, off) == ((off + 1) % 32) \in old

\* old & mask != 0, with mask = 1 << (offset % 32)
BitIsSet(old, off) == (off % 32) \in old

\* mask alone: the other bits of the word dropped
MaskOnly(old, off) == {off % 32}

\* old | mask
OrMask(old, off) == old \cup {off % 32}

\* atomic.CompareAndSwapUint32(ptr, old, new): the words after it
StoreWord(ss, sh, off, new) == Put(ss, sh, Put(ss[sh], off \div 32, new))

\* the offset computed from the low 16 bits of the address only
ShardOffLow16(ip) == ip.lo \div numShards

\* processChunk: shardIdx := ipInt % numShards; offset ipInt/numShards
ShardIdx(ip) == U32Mod(ip, numShards)
ShardOff(ip) == U32Div(ip, numShards)

(***************************************************************************)
(* concurrent.CountUniqueIPs: the calling goroutine.                       *)
(***************************************************************************)
\* capacity of chunkChan and of resultChan
ChanCap == numWorkers * 2

NoCallRunning == prod.pc = "idle"

\* main stops at the first error (log.Fatalf); a caller repeats only a call that returned
MayCall ==
  /\ NoCallRunning
  /\ calls < repeat
  /\ calls = Len(results)
  /\ \A i \in 1..Len(results) : results[i].err = "nil"

\* os.Open succeeds; channels made, workers and aggregator started,
\* the producer is about to read
ConcStart ==
  /\ impl = "concurrent"
  /\ MayCall
  /\ calls' = calls + 1
  /\ prod' = [IdleProd EXCEPT !.pc = "read"]
  /\ chunkChan' = [buf |-> <<>>, closed |-> FALSE]
  /\ resultChan' = [buf |-> <<>>, closed |-> FALSE]
  /\ wg' = numWorkers
  /\ wk' = [w \in Workers |-> [IdleWorker EXCEPT !.pc = "recv"]]
  /\ agg' = [pc |-> "recv", total |-> 0]
  /\ UNCHANGED <<env, bvars, results, shards, readFailed>>

\* os.Open fails: return 0, "failed to open file"
ConcOpenFail ==
  /\ impl = "concurrent"
  /\ MayCall
  /\ calls' = calls + 1
  /\ results' = Append(results, [count |-> 0, err |-> "open"])
  /\ UNCHANGED <<env, bvars, cvars>>

\* the cut at the end of the block, wherever the last newline is
CutAtBlockEnd(data) == Len(data) - 1

\* cut := bytes.LastIndexByte(data, '\n')
Cut(data) == LastIndexByte(data, NL)

\* where the producer goes after a Read that returned readErr with its data handled
AfterRead(readErr, next) == IF readErr = "EOF" THEN "tail" ELSE next

\* One Read of n bytes with result readErr ("nil", "EOF" or "err") and what the
\* loop body does with it, up to the send on chunkChan.
ProducerRead(n, readErr) ==
  /\ prod.pc = "read"
  /\ LET data == Slice(file, prod.pos, prod.pos + n)
         cut == Cut(data)
     IN  IF n = 0
           THEN \* n == 0 && readErr != nil
                /\ readErr # "nil"
                /\ IF readErr = "EOF"
                     THEN /\ prod' = [prod EXCEPT !.pc = "tail"]
                          /\ UNCHANGED results
                     ELSE \* return 0, "read error": nothing is closed or waited for
                          /\ prod' = [prod EXCEPT !.pc = "idle"]
                          /\ results' = Append(results, [count |-> 0, err |-> "read"])
           ELSE /\ UNCHANGED results
                /\ IF cut = -1
                     THEN prod' = [prod EXCEPT !.pos = @ + n,
                                               !.carry = @ \o data,
                                               !.pc = AfterRead(readErr, "read")]
                     ELSE prod' = [prod EXCEPT !.pos = @ + n,
                                               !.chunk = prod.carry \o Slice(data, 0, cut + 1),
                                               !.carry = <<>>,
                                               !.rest = Slice(data, cut + 1, Len(data)),
                                               !.eof = (readErr = "EOF"),
                                               !.pc = "send"]
  /\ readFailed' = (readFailed \/ readErr = "err")
  /\ UNCHANGED <<env, bvars, calls, shards, chunkChan, resultChan, wg, wk, agg>>

\* what a Read may return: some bytes, the end of the file (with the last bytes
\* or with none), or an error (with some bytes or with none)
Read ==
  LET remaining == Len(file) - prod.pos
  IN  \/ \E n \in 1..Min(BlockCap, remaining) : ProducerRead(n, "nil")
      \/ ProducerRead(0, "EOF") /\ remaining = 0
      \/ remaining \in 1..BlockCap /\ ProducerRead(remaining, "EOF")
      \/ ProducerRead(0, "err")
      \/ \E n \in 1..Min(BlockCap, remaining) : ProducerRead(n, "err")

\* chunkChan <- chunk, then the remainder after the last newline becomes the carry
ProducerSend ==
  /\ prod.pc = "send"
  /\ Len(chunkChan.buf) < ChanCap
  /\ chunkChan' = [chunkChan EXCEPT !.buf = Append(@, prod.chunk)]
  /\ prod' = [prod EXCEPT !.chunk = <<>>,
                          !.carry = @ \o prod.rest,
                          !.rest = <<>>,
                          !.eof = FALSE,
                          !.pc = IF prod.eof THEN "tail" ELSE "read"]
  /\ UNCHANGED <<env, bvars, calls, results, shards, resultChan, wg, wk, agg,
                 readFailed>>

\* after the loop: the leftover tail without newline is sent as a last chunk;
\* then close(chunkChan)
ProducerTail ==
  /\ prod.pc = "tail"
  /\ IF Len(prod.carry) > 0
       THEN /\ Len(chunkChan.buf) < ChanCap
            /\ chunkChan' = [buf |-> Append(chunkChan.buf, prod.carry), closed |-> TRUE]
       ELSE chunkChan' = [chunkChan EXCEPT !.closed = TRUE]
  /\ prod' = [prod EXCEPT !.pc = "wgwait"]
  /\ UNCHANGED <<env, bvars, calls, results, shards, resultChan, wg, wk, agg,
                 readFailed>>

\* wg.Wait() returns; close(resultChan)
ProducerWgWait ==
  /\ prod.pc = "wgwait"
  /\ wg = 0
  /\ resultChan' = [resultChan EXCEPT !.closed = TRUE]
  /\ prod' = [prod EXCEPT !.pc = "reswait"]
  /\ UNCHANGED <<env, bvars, calls, results, shards, chunkChan, wg, wk, agg,
                 readFailed>>

\* return total, nil without resultWg.Wait()
ProducerReturnNoWait ==
  /\ prod.pc = "reswait"
  /\ results' = Append(results, [count |-> agg.total, err |-> "nil"])
  /\ prod' = IdleProd
  /\ UNCHANGED <<env, bvars, calls, shards, chunkChan, resultChan, wg, wk, agg,
                 readFailed>>

\* resultWg.Wait() returns; return total, nil
ProducerReturn ==
  /\ prod.pc = "reswait"
  /\ agg.pc = "done"
  /\ results' = Append(results, [count |-> agg.total, err |-> "nil"])
  /\ prod' = IdleProd
  /\ UNCHANGED <<env, bvars, calls, shards, chunkChan, resultChan, wg, wk, agg,
                 readFailed>>

(***************************************************************************)
(* The worker goroutines: for chunk := range chunkChan                     *)
(*                          { resultChan <- processChunk(chunk, b) }       *)
(***************************************************************************)
\* the line processChunk looks at next: [found, line, next]
NextLineAt(chunk, start, i) ==
  IF i # -1
    THEN [found |-> TRUE, line |-> TrimSpace(Slice(chunk, start, i)), next |-> i + 1]
    ELSE IF start < Len(chunk)
      THEN [found |-> TRUE, line |-> TrimSpace(Slice(chunk, start, Len(chunk))),
            next |-> Len(chunk)]
      ELSE [found |-> FALSE]

\* (the position of the next newline is computed once)
NextLine(chunk, start) ==
  CHOOSE r \in {NextLineAt(chunk, start, i) : i \in {IndexByteFrom(chunk, start, NL)}} : TRUE

\* where processChunk stands once it has dealt with the line before position
\* start: at the next line, or at its return (the send of the count)
Resume(chunk, start) == IF NextLine(chunk, start).found THEN "line" ELSE "send"

\* receive the next chunk, or leave the loop when chunkChan is closed and drained
WorkerRecv(w) ==
  /\ w \in DOMAIN wk
  /\ wk[w].pc = "recv"
  /\ IF chunkChan.buf # <<>>
       THEN /\ wk' = [wk EXCEPT ![w] = [@ EXCEPT !.pc = Resume(Head(chunkChan.buf), 0),
                                                 !.chunk = Head(chunkChan.buf),
                                                 !.start = 0,
                                                 !.count = 0]]
            /\ chunkChan' = [chunkChan EXCEPT !.buf = Tail(@)]
            /\ UNCHANGED wg
       ELSE /\ chunkChan.closed
            /\ wk' = [wk EXCEPT ![w] = [@ EXCEPT !.pc = "done"]]
            /\ wg' = wg - 1
            /\ UNCHANGED chunkChan
  /\ UNCHANGED <<env, bvars, calls, results, shards, prod, resultChan, agg,
                 readFailed>>

\* if len(line) == 0 { continue }; ipInt, err := utils.ParseIPv4(line); if err != nil { continue }
Skips(line) == Len(line) = 0 \/ ~ParseIPv4(line).ok

\* processChunk up to the call of setBit for the next line, shard.ensure included
WorkerLine(w) ==
  /\ w \in DOMAIN wk
  /\ wk[w].pc = "line"
  /\ \E nl \in {NextLine(wk[w].chunk, wk[w].start)} : \E p \in {ParseIPv4(nl.line)} :
         IF Skips(nl.line)
           THEN /\ wk' = [wk EXCEPT ![w] = [@ EXCEPT !.start = nl.next,
                                                     !.pc = Resume(wk[w].chunk, nl.next)]]
                /\ UNCHANGED shards
           ELSE /\ wk' = [wk EXCEPT ![w] = [@ EXCEPT !.start = nl.next,
                                                     !.sh = ShardIdx(p.ip),
                                                     !.off = ShardOff(p.ip),
                                                     !.pc = "load"]]
                /\ shards' = Ensure(shards, ShardIdx(p.ip))
  /\ UNCHANGED <<env, bvars, calls, results, prod, chunkChan, resultChan, wg,
                 agg, readFailed>>

\* setBit: old := atomic.LoadUint32(ptr); if old&mask != 0 { return false }
WorkerLoad(w) ==
  /\ w \in DOMAIN wk
  /\ wk[w].pc = "load"
  /\ LET old == LoadWord(shards, wk[w].sh, wk[w].off)
     IN  wk' = [wk EXCEPT ![w] = [@ EXCEPT !.old = old,
                                           !.pc = IF BitIsSet(old, wk[w].off)
                                                    THEN Resume(wk[w].chunk, wk[w].start)
                                                    ELSE "cas"]]
  /\ UNCHANGED <<env, bvars, calls, results, shards, prod, chunkChan,
                 resultChan, wg, agg, readFailed>>

\* a plain store of old|mask in place of the compare-and-swap: always "new"
WorkerStoreNoCompare(w) ==
  /\ w \in DOMAIN wk
  /\ wk[w].pc = "cas"
  /\ shards' = StoreWord(shards, wk[w].sh, wk[w].off, OrMask(wk[w].old, wk[w].off))
  /\ wk' = [wk EXCEPT ![w] = [@ EXCEPT !.count = @ + 1,
                                       !.pc = Resume(wk[w].chunk, wk[w].start)]]
  /\ UNCHANGED <<env, bvars, calls, results, prod, chunkChan, resultChan, wg,
                 agg, readFailed>>

\* setBit: if atomic.CompareAndSwapUint32(ptr, old, old|mask) { return true }, else retry
WorkerCAS(w) ==
  /\ w \in DOMAIN wk
  /\ wk[w].pc = "cas"
  /\ IF LoadWord(shards, wk[w].sh, wk[w].off) = wk[w].old
       THEN /\ shards' = StoreWord(shards, wk[w].sh, wk[w].off,
                                   OrMask(wk[w].old, wk[w].off))
            /\ wk' = [wk EXCEPT ![w] = [@ EXCEPT !.count = @ + 1,
                                                 !.pc = Resume(wk[w].chunk, wk[w].start)]]
       ELSE /\ wk' = [wk EXCEPT ![w] = [@ EXCEPT !.pc = "load"]]
            /\ UNCHANGED shards
  /\ UNCHANGED <<env, bvars, calls, results, prod, chunkChan, resultChan, wg,
                 agg, readFailed>>

\* resultChan <- count
WorkerSend(w) ==
  /\ w \in DOMAIN wk
  /\ wk[w].pc = "send"
  /\ Len(resultChan.buf) < ChanCap
  /\ resultChan' = [resultChan EXCEPT !.buf = Append(@, wk[w].count)]
  /\ wk' = [wk EXCEPT ![w] = [@ EXCEPT !.pc = "recv", !.chunk = <<>>, !.start = 0,
                                       !.count = 0]]
  /\ UNCHANGED <<env, bvars, calls, results, shards, prod, chunkChan, wg, agg,
                 readFailed>>

(***************************************************************************)
(* The aggregator goroutine: for c := range resultChan { total += c }      *)
(***************************************************************************)
\* the results summed only once wg.Wait() has returned
AggregateAfterWait ==
  /\ agg.pc = "recv"
  /\ prod.pc = "reswait"
  /\ IF resultChan.buf # <<>>
       THEN /\ agg' = [agg EXCEPT !.total = @ + Head(resultChan.buf)]
            /\ resultChan' = [resultChan EXCEPT !.buf = Tail(@)]
       ELSE /\ resultChan.closed
            /\ agg' = [agg EXCEPT !.pc = "done"]
            /\ UNCHANGED resultChan
  /\ UNCHANGED <<env, bvars, calls, results, shards, prod, chunkChan, wg, wk,
                 readFailed>>

Aggregate ==
  /\ agg.pc = "recv"
  /\ IF resultChan.buf # <<>>
       THEN /\ agg' = [agg EXCEPT !.total = @ + Head(resultChan.buf)]
            /\ resultChan' = [resultChan EXCEPT !.buf = Tail(@)]
       ELSE /\ resultChan.closed
            /\ agg' = [agg EXCEPT !.pc = "done"]
            /\ UNCHANGED resultChan
  /\ UNCHANGED <<env, bvars, calls, results, shards, prod, chunkChan, wg, wk,
                 readFailed>>


(***************************************************************************)
(* bucket/bitbucket.go.                                                    *)
(***************************************************************************)
numBuckets == 256
suffixBits == 24
wordsPerSet == ((2 ^ suffixBits) + 31) \div 32

Buckets == 0..(numBuckets - 1)

IdleBk == [pc |-> "idle", i |-> 0, dir |-> FALSE, files |-> {}, src |-> FALSE,
           rd |-> FALSE, pos |-> 0, total |-> 0]

EmptyWriter == [buf |-> <<>>, err |-> FALSE]

\* binary.BigEndian.PutUint32 and binary.BigEndian.Uint32
PutUint32(v) ==
  <<(v \div 16777216) % 256, (v \div 65536) % 256, (v \div 256) % 256, v % 256>>
Uint32(b) == ((b[1] * 256 + b[2]) * 256 + b[3]) * 256 + b[4]

\* byte(ip >> 16): the second octet instead of the first
TopShift16(ip) == ip.hi % 256

\* ip & 0x0000FFFF: the low 16 bits only
SuffixLow16(ip) == ip.lo

\* top := byte(ip >> 24); suffix := ip & 0x00FFFFFF
Top(ip) == U32Top(ip)
Suffix(ip) == U32Low24(ip)

\* One write of data to the file under a bufio.Writer: k = -1, all of it is
\* written; k >= 0, the write fails after k bytes.  [f, left, err]
FileWrite(f, data, k) ==
  IF k = -1 THEN [f |-> f \o data, left |-> <<>>, err |-> FALSE]
  ELSE [f |-> f \o SubSeq(data, 1, k), left |-> SubSeq(data, k + 1, Len(data)),
        err |-> TRUE]

\* whether bufio.Writer.Write(p) on w has to flush: len(p) > b.Available() && b.err == nil
WriteFlushes(w, p) == ~w.err /\ Len(p) > WriteBufCap - Len(w.buf)

\* bufio.Writer.Write(p) for Len(p) <= WriteBufCap, over file content f, the flush
\* it may need ending as k says.  [w, f, failed]
BufWrite(w, f, p, k) ==
  IF w.err THEN [w |-> w, f |-> f, failed |-> TRUE]
  ELSE IF WriteFlushes(w, p)
    THEN LET n == WriteBufCap - Len(w.buf)
             r == FileWrite(f, w.buf \o SubSeq(p, 1, n), k)
         IN  IF r.err
               THEN [w |-> [buf |-> r.left, err |-> TRUE], f |-> r.f, failed |-> TRUE]
               ELSE [w |-> [buf |-> SubSeq(p, n + 1, Len(p)), err |-> FALSE], f |-> r.f,
                     failed |-> FALSE]
    ELSE [w |-> [w EXCEPT !.buf = @ \o p], f |-> f, failed |-> FALSE]

\* whether bufio.Writer.Flush on w writes to the file
Flushes(w) == ~w.err /\ w.buf # <<>>

\* the writers flushClose's Flush calls write to the file for
Flushing == {i \in DOMAIN writers : Flushes(writers[i])}

\* how the writes of the writers in D may end: all bytes written (-1), or a failure
\* after k bytes
WriteOutcomes(D) ==
  {ks \in [D -> -1..(WriteBufCap - 1)] : \A i \in D : ks[i] < Len(writers[i].buf)}

\* the files closed with the buffered bytes never written
ClosedUnflushed(ks) == disk

\* the partition files after flushClose, its writes ending as ks says
FlushedDisk(ks) ==
  [i \in DOMAIN disk \cup DOMAIN ks |->
     IF i \in DOMAIN ks
       THEN FileWrite(At(disk, i, <<>>), writers[i].buf, ks[i]).f
       ELSE disk[i]]

\* the deferred calls of a return: src.Close() once the input is open, os.RemoveAll(dir)
Deferred(b) == [b EXCEPT !.pc = "idle", !.src = FALSE, !.dir = FALSE]

\* os.MkdirTemp succeeds
BucketStart ==
  /\ impl = "bucket"
  /\ MayCall
  /\ bk.pc = "idle"
  /\ calls' = calls + 1
  /\ bk' = [IdleBk EXCEPT !.pc = "create", !.dir = TRUE]
  /\ writers' = <<>>
  /\ disk' = <<>>
  /\ UNCHANGED <<env, cvars, results, writeFailed>>

\* os.MkdirTemp fails: return 0, "mkdtemp"
BucketMkdirFail ==
  /\ impl = "bucket"
  /\ MayCall
  /\ bk.pc = "idle"
  /\ calls' = calls + 1
  /\ results' = Append(results, [count |-> 0, err |-> "mkdtemp"])
  /\ UNCHANGED <<env, cvars, bvars>>

\* one iteration of the creation loop: os.Create succeeds
BucketCreate ==
  /\ bk.pc = "create"
  /\ bk' = [bk EXCEPT !.files = @ \cup {bk.i},
                      !.i = IF bk.i + 1 < numBuckets THEN bk.i + 1 ELSE 0,
                      !.pc = IF bk.i + 1 < numBuckets THEN "create" ELSE "open"]
  /\ UNCHANGED <<env, cvars, calls, results, writers, disk, writeFailed>>

\* os.Create fails in iteration i: return 0, "create bucket"
BucketCreateFail ==
  /\ bk.pc = "create"
  /\ bk' = Deferred(bk)
  /\ disk' = <<>>
  /\ results' = Append(results, [count |-> 0, err |-> "create bucket"])
  /\ UNCHANGED <<env, cvars, calls, writers, writeFailed>>

\* os.Open(filename) succeeds
BucketOpen ==
  /\ bk.pc = "open"
  /\ bk' = [bk EXCEPT !.src = TRUE, !.pos = 0, !.pc = "pass1"]
  /\ UNCHANGED <<env, cvars, calls, results, writers, disk, writeFailed>>

\* os.Open(filename) fails: flushClose(); return 0, "open input"
BucketOpenFail ==
  /\ bk.pc = "open"
  /\ bk' = Deferred([bk EXCEPT !.files = {}])
  /\ writers' = <<>>
  /\ disk' = <<>>
  /\ results' = Append(results, [count |-> 0, err |-> "open input"])
  /\ UNCHANGED <<env, cvars, calls, writeFailed>>

\* the bytes after the last newline dropped at the end of the file
ReadBytesDropsTail(pos) ==
  LET i == IndexByteFrom(file, pos, NL)
  IN  IF i # -1 THEN [b |-> Slice(file, pos, i + 1), eof |-> FALSE]
      ELSE [b |-> <<>>, eof |-> TRUE]

\* what r.ReadBytes('\n') returns at position pos when it does not fail: [b, eof]
ReadBytes(pos) ==
  LET i == IndexByteFrom(file, pos, NL)
  IN  IF i # -1 THEN [b |-> Slice(file, pos, i + 1), eof |-> FALSE]
      ELSE [b |-> Slice(file, pos, Len(file)), eof |-> TRUE]

\* the line of what ReadBytes returned: without the newline, trimmed
LineOf(b) ==
  LET idx == LastIndexByte(b, NL)
  IN  IF idx >= 0 THEN TrimSpace(Slice(b, 0, idx)) ELSE TrimSpace(b)

\* perr not looked at
AcceptsAnyText(line) == Len(line) # 0

\* if len(line) != 0 { ip, perr := utils.ParseIPv4(line); if perr == nil { ... } }
Accepts(line) == Len(line) # 0 /\ ParseIPv4(line).ok

\* one iteration of the pass 1 loop whose ReadBytes succeeds; k: how the file
\* write ends that writers[top].Write makes when its buffer is full
BucketReadLine(k) ==
  /\ bk.pc = "pass1"
  /\ LET rb == ReadBytes(bk.pos)
         line == LineOf(rb.b)
         p == ParseIPv4(line)
     IN  /\ IF Accepts(line)
              THEN LET top == Top(p.ip)
                       w == At(writers, top, EmptyWriter)
                       r == BufWrite(w, At(disk, top, <<>>), PutUint32(Suffix(p.ip)), k)
                   IN  /\ IF WriteFlushes(w, PutUint32(Suffix(p.ip)))
                            THEN k < WriteBufCap
                            ELSE k = -1
                       /\ writers' = Put(writers, top, r.w)
                       /\ disk' = IF r.f = <<>> THEN disk ELSE Put(disk, top, r.f)
                       /\ writeFailed' = (writeFailed \/ r.failed)
              ELSE /\ k = -1
                   /\ UNCHANGED <<writers, disk, writeFailed>>
         /\ bk' = [bk EXCEPT !.pos = @ + Len(rb.b),
                             !.pc = IF rb.eof THEN "flush" ELSE "pass1"]
  /\ UNCHANGED <<env, cvars, calls, results>>

\* ReadBytes fails: flushClose(); return 0, "read"
BucketReadFail ==
  /\ bk.pc = "pass1"
  /\ bk' = Deferred([bk EXCEPT !.files = {}])
  /\ writers' = <<>>
  /\ disk' = <<>>
  /\ results' = Append(results, [count |-> 0, err |-> "read"])
  /\ UNCHANGED <<env, cvars, calls, writeFailed>>

\* flushClose() at the end of pass 1: every writer flushed, the result of Flush
\* dropped, every file closed
BucketFlushClose ==
  /\ bk.pc = "flush"
  /\ \E ks \in WriteOutcomes(Flushing) :
       /\ disk' = FlushedDisk(ks)
       /\ writeFailed' = (writeFailed \/ \E i \in DOMAIN ks : ks[i] # -1)
  /\ writers' = <<>>
  /\ bk' = [bk EXCEPT !.files = {}, !.i = 0, !.total = 0, !.pc = "pass2"]
  /\ UNCHANGED <<env, cvars, calls, results>>

\* the pass 2 loop without bitset[word] |= mask: every record counts as new
RECURSIVE CountRecordsNoSet(_, _, _)
CountRecordsNoSet(bytes, bitset, added) ==
  IF Len(bytes) < 4 THEN added
  ELSE CountRecordsNoSet(SubSeq(bytes, 5, Len(bytes)), bitset, added + 1)

\* the pass 2 loop with the count of a partition dropped when its file ends
\* inside a record
RECURSIVE CountRecordsShortIsZero(_, _, _)
CountRecordsShortIsZero(bytes, bitset, added) ==
  IF bytes = <<>> THEN added
  ELSE IF Len(bytes) < 4 THEN 0
  ELSE LET suffix == Uint32(SubSeq(bytes, 1, 4))
           word == suffix \div 32
           bit == suffix % 32
           rest == SubSeq(bytes, 5, Len(bytes))
       IN  IF bit \notin At(bitset, word, {})
             THEN CountRecordsShortIsZero(rest,
                                          Put(bitset, word, At(bitset, word, {}) \cup {bit}),
                                          added + 1)
             ELSE CountRecordsShortIsZero(rest, bitset, added)

\* the pass 2 loop over the records of one partition file: the number of bits
\* newly set in bitset.  io.ReadFull ends the loop at the end of the file, also
\* when fewer than 4 bytes are left.
RECURSIVE CountRecords(_, _, _)
CountRecords(bytes, bitset, added) ==
  IF Len(bytes) < 4 THEN added
  ELSE LET suffix == Uint32(SubSeq(bytes, 1, 4))
           word == suffix \div 32
           bit == suffix % 32
           rest == SubSeq(bytes, 5, Len(bytes))
       IN  IF bit \notin At(bitset, word, {})
             THEN CountRecords(rest, Put(bitset, word, At(bitset, word, {}) \cup {bit}),
                               added + 1)
             ELSE CountRecords(rest, bitset, added)

\* bitset := make([]uint32, wordsPerSet)
FreshBitset == <<>>

\* one iteration of the pass 2 loop without failure: open, count, close, total += added
BucketCount ==
  /\ bk.pc = "pass2"
  /\ bk.i < numBuckets
  /\ bk' = [bk EXCEPT !.total = @ + CountRecords(At(disk, bk.i, <<>>), FreshBitset, 0),
                      !.i = @ + 1]
  /\ UNCHANGED <<env, cvars, calls, results, writers, disk, writeFailed>>

\* os.Open of the partition file fails: return 0, "open bucket"
BucketCountOpenFail ==
  /\ bk.pc = "pass2"
  /\ bk.i < numBuckets
  /\ bk' = Deferred(bk)
  /\ disk' = <<>>
  /\ results' = Append(results, [count |-> 0, err |-> "open bucket"])
  /\ UNCHANGED <<env, cvars, calls, writers, writeFailed>>

\* io.ReadFull fails on the partition file: f.Close(); return 0, "read bucket"
BucketCountReadFail ==
  /\ bk.pc = "pass2"
  /\ bk.i < numBuckets
  /\ bk' = Deferred([bk EXCEPT !.rd = FALSE])
  /\ disk' = <<>>
  /\ results' = Append(results, [count |-> 0, err |-> "read bucket"])
  /\ UNCHANGED <<env, cvars, calls, writers, writeFailed>>

\* return total, nil
BucketReturn ==
  /\ bk.pc = "pass2"
  /\ bk.i = numBuckets
  /\ bk' = Deferred(bk)
  /\ disk' = <<>>
  /\ results' = Append(results, [count |-> bk.total, err |-> "nil"])
  /\ UNCHANGED <<env, cvars, calls, writers, writeFailed>>

BucketNext ==
  \/ BucketStart
  \/ BucketMkdirFail
  \/ BucketCreate
  \/ BucketCreateFail
  \/ BucketOpen
  \/ BucketOpenFail
  \/ \E k \in -1..(WriteBufCap - 1) : BucketReadLine(k)
  \/ BucketReadFail
  \/ BucketFlushClose
  \/ BucketCount
  \/ BucketCountOpenFail
  \/ BucketCountReadFail
  \/ BucketReturn

(***************************************************************************)
(* The naive engine's call (section 4.2).                                  *)
(***************************************************************************)
NaiveCall ==
  /\ impl = "naive"
  /\ MayCall
  /\ calls' = calls + 1
  /\ results' = Append(results, [count |-> NaiveCount(file), err |-> "nil"])
  /\ UNCHANGED <<env, cvars, bvars>>

(***************************************************************************)
(* The system: main selects one engine; the caller calls it repeat times.  *)
(***************************************************************************)
ConcNext ==
  \/ ConcStart
  \/ ConcOpenFail
  \/ Read
  \/ ProducerSend
  \/ ProducerTail
  \/ ProducerWgWait
  \/ ProducerReturn
  \/ \E w \in Workers : WorkerRecv(w)
  \/ \E w \in Workers : WorkerLine(w)
  \/ \E w \in Workers : WorkerLoad(w)
  \/ \E w \in Workers : WorkerCAS(w)
  \/ \E w \in Workers : WorkerSend(w)
  \/ Aggregate

InitState ==
  /\ calls = 0
  /\ results = <<>>
  /\ shards = <<>>
  /\ prod = IdleProd
  /\ chunkChan = [buf |-> <<>>, closed |-> FALSE]
  /\ resultChan = [buf |-> <<>>, closed |-> FALSE]
  /\ wg = 0
  /\ wk = <<>>
  /\ agg = [pc |-> "none", total |-> 0]
  /\ readFailed = FALSE
  /\ bk = IdleBk
  /\ writers = <<>>
  /\ disk = <<>>
  /\ writeFailed = FALSE

Init ==
  /\ file \in Files
  /\ impl \in {"naive", "concurrent", "bucket"}
  /\ numWorkers \in (IF impl = "concurrent" THEN 1..MaxWorkers ELSE {1})
  /\ repeat = 1
  /\ InitState

Next == ConcNext \/ BucketNext \/ NaiveCall

Spec == Init /\ [][Next]_vars

\* the caller calls the engine twice
TwiceFiles == {JoinLines(<<LineA, LineB, LineA>>), JoinLines(<<LineA, LineBad>>) \o <<NL>>}

InitTwice ==
  /\ file \in TwiceFiles
  /\ impl \in {"naive", "concurrent", "bucket"}
  /\ numWorkers \in (IF impl = "concurrent" THEN 1..MaxWorkers ELSE {1})
  /\ repeat = 2
  /\ InitState

SpecTwice == InitTwice /\ [][Next]_vars

\* the concurrent engine alone, every goroutine scheduled fairly
LiveFiles == {JoinLines(<<LineA, LineBlank, LineA, LineBlank>>), JoinLines(<<LineA, LineB>>)}

InitLive ==
  /\ file \in LiveFiles
  /\ impl = "concurrent"
  /\ numWorkers \in 1..MaxWorkers
  /\ repeat = 1
  /\ InitState

ProducerStep == Read \/ ProducerSend \/ ProducerTail \/ ProducerWgWait \/ ProducerReturn

WorkerStep(w) == WorkerRecv(w) \/ WorkerLine(w) \/ WorkerLoad(w) \/ WorkerCAS(w) \/ WorkerSend(w)

Fairness ==
  /\ WF_vars(ProducerStep)
  /\ \A w \in 1..MaxWorkers : WF_vars(WorkerStep(w))
  /\ WF_vars(Aggregate)

LiveSpec == InitLive /\ [][ConcNext]_vars /\ Fairness

\* the concurrent engine alone on files whose addresses meet in one bitset word:
\* 1.2.3.4 and 1.2.67.4 have the same shard and offsets 1032 and 1033
\* (5.6.7.8 has another shard)
LineD == <<"1", ".", "2", ".", "6", "7", ".", "4">>

SameWordFiles ==
  {JoinLines(<<LineA, LineA>>) \o <<NL>>, JoinLines(<<LineA, LineD>>) \o <<NL>>,
   JoinLines(<<LineA, LineD, LineA>>), JoinLines(<<LineD, LineB, LineBad>>),
   JoinLines(<<LineC, LineA>>)}

InitSameWord ==
  /\ file \in SameWordFiles
  /\ impl = "concurrent"
  /\ numWorkers \in 1..MaxWorkers
  /\ repeat = 1
  /\ InitState

SpecSameWord == InitSameWord /\ [][ConcNext]_vars

\* the concurrent engine with one worker on one-line files whose address is made
\* of octets at the ends of the ranges that shard index and offset are cut from
BoundaryOctets == {0, 1, 63, 64, 255}

\* the decimal text of an octet
FormatOctet(n) ==
  IF n < 10 THEN <<Digits[n + 1]>>
  ELSE IF n < 100 THEN <<Digits[(n \div 10) + 1], Digits[(n % 10) + 1]>>
  ELSE <<Digits[(n \div 100) + 1], Digits[((n \div 10) % 10) + 1], Digits[(n % 10) + 1]>>

AddrFiles ==
  {FormatOctet(a) \o <<".">> \o FormatOctet(b) \o <<".">> \o FormatOctet(c) \o <<".">>
     \o FormatOctet(d) \o <<NL>> : a, b, c, d \in BoundaryOctets}

InitAddr ==
  /\ file \in AddrFiles
  /\ impl = "concurrent"
  /\ numWorkers = 1
  /\ repeat = 1
  /\ InitState

SpecAddr == InitAddr /\ [][ConcNext]_vars

\* the bucket engine alone on files with different addresses of one partition:
\* 1.2.3.4 and 1.2.67.4 both have top byte 1
PartitionFiles ==
  {JoinLines(<<LineD, LineA>>), JoinLines(<<LineA, LineD, LineA>>) \o <<NL>>,
   JoinLines(<<LineB, LineA, LineD>>), JoinLines(<<LineA, LineBad, LineD>>)}

InitPartition ==
  /\ file \in PartitionFiles
  /\ impl = "bucket"
  /\ numWorkers = 1
  /\ repeat = 1
  /\ InitState

SpecPartition == InitPartition /\ [][BucketNext]_vars

(***************************************************************************)
(* Properties.                                                             *)
(***************************************************************************)
\* the first call has returned
FirstReturned == Len(results) >= 1

\* no call is running and the last call started has returned
Returned == NoCallRunning /\ bk.pc = "idle" /\ calls >= 1 /\ Len(results) = calls

LastResult == results[Len(results)]

\* C1: the concurrent engine, called on a fresh BitsetCounter, all reads succeeding,
\* returns the number of distinct valid addresses of the file, for every number of
\* workers, every division of the file into reads and every interleaving.
C1_ConcurrentCountExact ==
  (impl = "concurrent" /\ calls = 1 /\ FirstReturned /\ results[1].err = "nil"
     /\ ~readFailed)
    => results[1].count = Cardinality(Addresses(file))

\* two workers have counted the section 8 scenario: duplicates, a malformed and a blank line
C1_Witness ==
  /\ impl = "concurrent"
  /\ numWorkers > 1
  /\ file = ExampleFile
  /\ ~readFailed
  /\ results = <<[count |-> 2, err |-> "nil"]>>

\* C2: the bucket engine, all reads and temporary-file operations succeeding,
\* returns the number of distinct valid addresses of the file.
C2_BucketCountExact ==
  (impl = "bucket" /\ calls = 1 /\ FirstReturned /\ results[1].err = "nil"
     /\ ~writeFailed)
    => results[1].count = Cardinality(Addresses(file))

\* the bucket engine has counted a file with a repeated address and one that
\* differs from it in the top byte only
C2_Witness ==
  /\ impl = "bucket"
  /\ file = JoinLines(<<LineB, LineA>>) \o <<NL>>
  /\ ~writeFailed
  /\ results = <<[count |-> 2, err |-> "nil"]>>

\* C3: whichever engine main selected, its count for the file is the count the
\* naive engine gives for the same file (when no read or write failed).
C3_EnginesAgree ==
  (calls = 1 /\ FirstReturned /\ results[1].err = "nil" /\ ~readFailed /\ ~writeFailed)
    => results[1].count = NaiveCount(file)

\* a bit-set engine has returned the naive engine's count for a file that holds
\* one address twice
C3_Witness ==
  /\ impl \in {"concurrent", "bucket"}
  /\ file = JoinLines(<<LineA, LineA>>)
  /\ ~readFailed /\ ~writeFailed
  /\ FirstReturned
  /\ results[1] = [count |-> NaiveCount(file), err |-> "nil"]
  /\ results[1].count = 1

\* C4: a second call of the same engine on the same file returns the count the
\* first call returned (no read or write having failed).
C4_SecondCallSameCount ==
  (Len(results) = 2 /\ results[1].err = "nil" /\ results[2].err = "nil"
     /\ ~readFailed /\ ~writeFailed)
    => results[2].count = results[1].count

\* the line a worker in processChunk is about to deal with, as the chunk holds it
WorkerRawLine(w) ==
  LET i == IndexByteFrom(wk[w].chunk, wk[w].start, NL)
  IN  Slice(wk[w].chunk, wk[w].start, IF i = -1 THEN Len(wk[w].chunk) ELSE i)

\* the line of the input the bucket engine's pass 1 is about to read
BucketRawLine ==
  LET i == IndexByteFrom(file, bk.pos, NL)
  IN  Slice(file, bk.pos, IF i = -1 THEN Len(file) ELSE i)

\* a line that is empty after trimming or fails to parse
Unparseable(raw) == Len(TrimSpace(raw)) = 0 \/ ~ParseIPv4(TrimSpace(raw)).ok

\* C5: the step of either engine that deals with a line that is blank or fails to
\* parse sets no bit, allocates no shard, writes no partition record, adds
\* nothing to the chunk's count and returns nothing; and the scenario of section 8
\* gives count 2 with a nil error.
C5_BadLinesSkipped ==
  /\ [][/\ \A w \in DOMAIN wk :
             (wk[w].pc = "line" /\ wk'[w] # wk[w] /\ Unparseable(WorkerRawLine(w)))
               => /\ shards' = shards
                  /\ wk'[w].count = wk[w].count
                  /\ wk'[w].pc \in {"line", "send"}
                  /\ results' = results
        /\ (bk.pc = "pass1" /\ bk' # bk /\ results' = results /\ Unparseable(BucketRawLine))
               => /\ writers' = writers
                  /\ disk' = disk
                  /\ bk'.pc \in {"pass1", "flush"}]_vars
  /\ [](file = ExampleFile /\ calls = 1 /\ Returned /\ ~readFailed /\ ~writeFailed
          /\ impl \in {"concurrent", "bucket"}
          /\ LastResult.err \notin {"open", "mkdtemp", "create bucket", "open input",
                                    "read", "open bucket", "read bucket"}
        => LastResult = [count |-> 2, err |-> "nil"])

\* a worker has gone through a chunk that holds nothing but the line not-an-ip
\* and is about to send the count 0
C5_Witness ==
  \E w \in DOMAIN wk :
    /\ wk[w].pc = "send"
    /\ TrimSpace(wk[w].chunk) = LineNotAnIp
    /\ wk[w].count = 0
    /\ shards # <<>>

\* C6: a call of the bucket engine during which a write to a partition file
\* failed returns a non-nil error.
C6_WriteFailureIsFatal ==
  (impl = "bucket" /\ calls = 1 /\ Returned /\ writeFailed) => LastResult.err # "nil"

\* C7: when the bucket engine has returned, every partition file handle and the
\* input handle are closed and the temporary directory is removed.
C7_AllReleasedOnReturn ==
  (impl = "bucket" /\ Returned)
    => (bk.files = {} /\ ~bk.src /\ ~bk.rd /\ ~bk.dir)

\* C8: after a Read of the input has returned a non-EOF error the concurrent
\* engine reads no more, and the call returns a non-nil error.
C8_ReadFailureIsFatal ==
  /\ [][readFailed => ~(prod.pc = "read" /\ prod' # prod)]_vars
  /\ []((impl = "concurrent" /\ calls = 1 /\ Returned /\ readFailed)
          => LastResult.err # "nil")

\* C9: when the concurrent engine has returned a read error, the work queue is
\* closed, every worker and the aggregator have terminated, and the bitset
\* changes no more.
C9_ReleasedOnReadError ==
  /\ []((impl = "concurrent" /\ Returned /\ LastResult.err = "read")
          => /\ chunkChan.closed
             /\ \A w \in DOMAIN wk : wk[w].pc = "done"
             /\ agg.pc = "done")
  /\ [][(impl = "concurrent" /\ Returned /\ LastResult.err = "read")
          => shards' = shards]_vars

\* C10: under fair scheduling of producer, workers and aggregator, a call of the
\* concurrent engine that has started returns.
C10_Terminates == (prod.pc # "idle") ~> (prod.pc = "idle" /\ Len(results) = calls)

\* the producer is blocked on the full work queue of a single worker
C10_Witness ==
  /\ numWorkers = 1
  /\ prod.pc = "send"
  /\ Len(chunkChan.buf) = ChanCap
  /\ ~readFailed

\* the 4-byte big-endian records of a partition file, in order, a short tail left out
Records(bytes) ==
  [k \in 1..(Len(bytes) \div 4) |-> Uint32(SubSeq(bytes, 4 * k - 3, 4 * k))]

\* the record values of partition i
RecordSet(i) == {Records(At(disk, i, <<>>))[k] : k \in 1..(Len(At(disk, i, <<>>)) \div 4)}

\* C11: in pass 2 (no write having failed) partition i holds exactly the values
\* a & 0xFFFFFF of the valid addresses a of the file with a >> 24 = i, and the
\* total so far is the number of distinct valid addresses whose top byte is
\* below the loop index: each partition counted on its own, all-zero bitset.
C11_PartitionsExact ==
  (bk.pc = "pass2" /\ ~writeFailed)
    => LET addrs == Addresses(file)
       IN  /\ \A i \in Buckets :
                RecordSet(i) = {U32Low24(a) : a \in {x \in addrs : U32Top(x) = i}}
           /\ bk.total = Cardinality({a \in addrs : U32Top(a) < bk.i})

\* 1.2.3.4 and 2.2.3.4 have gone to partitions 1 and 2 as the same record and
\* both have been counted
C11_Witness ==
  /\ file = JoinLines(<<LineA, LineB>>)
  /\ bk.pc = "pass2"
  /\ bk.i = 3
  /\ ~writeFailed
  /\ Records(At(disk, 1, <<>>)) = <<2 * 65536 + 3 * 256 + 4>>
  /\ Records(At(disk, 2, <<>>)) = Records(At(disk, 1, <<>>))
  /\ bk.total = 2

\* the number of bytes of the file the producer has enqueued so far: what it has
\* read less what it still holds (carry, the chunk about to be sent and the
\* remainder after it)
Enqueued == prod.pos - Len(prod.carry) - Len(prod.chunk) - Len(prod.rest)

\* this step enqueues a chunk on chunkChan
Enqueues == Len(chunkChan'.buf) > Len(chunkChan.buf)

\* the chunk this step enqueues
EnqueuedChunk == chunkChan'.buf[Len(chunkChan'.buf)]

\* C12: the chunks the producer enqueues are consecutive pieces of the file: the
\* first starts at byte 0, each starts where the one before ended, each but the
\* tail (enqueued together with the close of the queue) ends with a newline, and
\* the queue is closed when the whole file is enqueued; and every chunk in the
\* queue or in a worker's hands, but the tail, ends with a newline.
C12_ChunksAligned ==
  /\ [][/\ (prod.pc = "idle" /\ prod'.pc = "read") => Enqueued' = 0
        /\ (prod.pc \in {"read", "send", "tail"} /\ Enqueues)
             => /\ EnqueuedChunk # <<>>
                /\ EnqueuedChunk = Slice(file, Enqueued, Enqueued + Len(EnqueuedChunk))
                /\ IF chunkChan'.closed
                     THEN Enqueued + Len(EnqueuedChunk) = Len(file)
                     ELSE /\ EnqueuedChunk[Len(EnqueuedChunk)] = NL
                          /\ Enqueued' = Enqueued + Len(EnqueuedChunk)
        /\ (prod.pc \in {"read", "send", "tail"} /\ ~Enqueues)
             => /\ prod'.pc \in {"read", "send", "tail"} => Enqueued' = Enqueued
                /\ (chunkChan'.closed /\ ~chunkChan.closed) => Enqueued = Len(file)]_vars
  /\ [](/\ \A k \in 1..Len(chunkChan.buf) :
             \/ chunkChan.buf[k][Len(chunkChan.buf[k])] = NL
             \/ chunkChan.closed /\ k = Len(chunkChan.buf)
        /\ \A w \in DOMAIN wk :
             wk[w].chunk # <<>>
               => \/ wk[w].chunk[Len(wk[w].chunk)] = NL
                  \/ chunkChan.closed /\ chunkChan.buf = <<>>)

\* the chunk of the first line is enqueued and a read boundary has cut the
\* second line after two bytes, which the producer carries
C12_Witness ==
  /\ file = JoinLines(<<LineA, LineB>>)
  /\ prod.pc = "read"
  /\ Enqueued = Len(LineA) + 1
  /\ prod.carry = <<"2", ".">>
  /\ ~readFailed

\* the bytes of f after its last newline (all of f when it holds none)
LastLine(f) == Slice(f, LastIndexByte(f, NL) + 1, Len(f))

\* f ends, without a newline, with a line that parses
EndsWithValidLine(f) == Len(f) > 0 /\ f[Len(f)] # NL /\ ~Unparseable(LastLine(f))

\* the bytes written so far for partition i: those in the file, then those buffered
PartitionBytes(d, ws, i) == At(d, i, <<>>) \o At(ws, i, EmptyWriter).buf

\* C13: a valid last line without a newline is dealt with once and counted.  The
\* worker that meets it goes on to setBit with its address and has then reached
\* the end of the chunk; pass 1 of the bucket engine appends its one record and
\* leaves the read loop; and a call on such a file (nothing failing) returns the
\* number of distinct valid addresses, the last line's among them.
C13_LastLineCounted ==
  /\ [][/\ \A w \in DOMAIN wk :
             (/\ wk[w].pc = "line" /\ wk'[w] # wk[w]
              /\ IndexByteFrom(wk[w].chunk, wk[w].start, NL) = -1
              /\ ~Unparseable(WorkerRawLine(w)))
               => /\ wk'[w].pc = "load"
                  /\ wk'[w].start = Len(wk[w].chunk)
                  /\ wk'[w].sh = U32Mod(ParseIPv4(TrimSpace(WorkerRawLine(w))).ip, numShards)
                  /\ wk'[w].off = U32Div(ParseIPv4(TrimSpace(WorkerRawLine(w))).ip, numShards)
        /\ (/\ bk.pc = "pass1" /\ bk' # bk /\ results' = results
            /\ ~writeFailed'
            /\ IndexByteFrom(file, bk.pos, NL) = -1
            /\ ~Unparseable(BucketRawLine))
               => LET a == ParseIPv4(TrimSpace(BucketRawLine)).ip
                  IN  /\ bk'.pc = "flush"
                      /\ PartitionBytes(disk', writers', U32Top(a))
                           = PartitionBytes(disk, writers, U32Top(a)) \o PutUint32(U32Low24(a))]_vars
  /\ []((/\ EndsWithValidLine(file) /\ impl \in {"concurrent", "bucket"}
         /\ calls = 1 /\ Returned /\ LastResult.err = "nil"
         /\ ~readFailed /\ ~writeFailed)
          => /\ LastResult.count = Cardinality(Addresses(file))
             /\ ParseIPv4(TrimSpace(LastLine(file))).ip \in Addresses(file)
             /\ impl = "concurrent"
                  => LET a == ParseIPv4(TrimSpace(LastLine(file))).ip
                     IN  /\ U32Mod(a, numShards) \in DOMAIN shards
                         /\ (U32Div(a, numShards) % 32)
                              \in At(shards[U32Mod(a, numShards)], U32Div(a, numShards) \div 32, {}))

\* the concurrent engine has counted a file that is one address and no newline
C13_Witness ==
  /\ file = LineA
  /\ impl = "concurrent"
  /\ ~readFailed
  /\ results = <<[count |-> 1, err |-> "nil"]>>

RECURSIVE SumSeq(_)
SumSeq(s) == IF s = <<>> THEN 0 ELSE Head(s) + SumSeq(Tail(s))

\* the bits set in the shards, as pairs of shard index and offset
SetBits(ss) ==
  UNION {UNION {{<<sh, wd * 32 + b>> : b \in ss[sh][wd]} : wd \in DOMAIN ss[sh]} :
           sh \in DOMAIN ss}

\* how many setBit calls of the call under way have returned true: the counts
\* the workers hold, those in resultChan and those the aggregator has summed
TruesSoFar ==
  SumSeq([w \in 1..Len(wk) |-> wk[w].count]) + SumSeq(resultChan.buf) + agg.total

\* the bit worker w's setBit call is about is set in the shards
WorkerBitIsSet(ss, w) ==
  /\ wk[w].sh \in DOMAIN ss
  /\ BitIsSet(LoadWord(ss, wk[w].sh, wk[w].off), wk[w].off)

\* C14: a setBit call returns true only in the step in which its compare-and-swap
\* sets the bit, which was not set before; it returns false only when the bit
\* is set; a call that loads the word once the bit is set returns false; a
\* failed compare-and-swap is retried; and on a fresh counter the number of calls
\* that returned true is the number of bits set: one per bit.
C14_OneSetBitReturnsTrue ==
  /\ [][\A w \in DOMAIN wk :
          /\ (wk[w].pc = "cas" /\ w \in DOMAIN wk' /\ wk'[w].count = wk[w].count + 1)
               => /\ ~WorkerBitIsSet(shards, w)
                  /\ WorkerBitIsSet(shards', w)
          /\ (wk[w].pc = "cas" /\ w \in DOMAIN wk' /\ wk'[w] # wk[w]
                /\ wk'[w].count = wk[w].count)
               => /\ wk'[w].pc = "load"
                  /\ shards' = shards
          /\ (wk[w].pc = "load" /\ w \in DOMAIN wk' /\ wk'[w] # wk[w])
               => IF WorkerBitIsSet(shards, w)
                    THEN /\ wk'[w].pc \in {"line", "send"}
                         /\ wk'[w].count = wk[w].count
                    ELSE wk'[w].pc = "cas"]_vars
  /\ [](calls = 1 => TruesSoFar = Cardinality(SetBits(shards)))

\* a worker is about to compare-and-swap with a word it loaded before another
\* worker set the very bit it is after
C14_Witness ==
  \E w \in DOMAIN wk :
    /\ wk[w].pc = "cas"
    /\ ~BitIsSet(wk[w].old, wk[w].off)
    /\ WorkerBitIsSet(shards, w)

\* the (shard index, offset) positions of the distinct valid addresses of f
Positions(f) == {<<U32Mod(a, numShards), U32Div(a, numShards)>> : a \in Addresses(f)}

\* C15: no step clears a bit; a successful compare-and-swap adds its own bit and
\* keeps every other, also when the word has changed since the worker loaded it;
\* only positions of valid addresses of the file are ever set; and when the call
\* returns its count the set bits are exactly those positions.
C15_BitsKeptAndExact ==
  /\ [][/\ SetBits(shards) \subseteq SetBits(shards')
        /\ \A w \in DOMAIN wk :
             (wk[w].pc = "cas" /\ shards' # shards /\ w \in DOMAIN wk' /\ wk'[w] # wk[w])
               => SetBits(shards') = SetBits(shards) \cup {<<wk[w].sh, wk[w].off>>}]_vars
  /\ [](/\ SetBits(shards) \subseteq Positions(file)
        /\ (calls = 1 /\ Returned /\ LastResult.err = "nil")
             => SetBits(shards) = Positions(file))

\* a worker is about to compare-and-swap its bit into a word in which another
\* worker has set another bit since this one loaded it
C15_Witness ==
  \E w \in DOMAIN wk :
    /\ wk[w].pc = "cas"
    /\ ~WorkerBitIsSet(shards, w)
    /\ LoadWord(shards, wk[w].sh, wk[w].off) # wk[w].old

\* worker w holds a chunk: it is inside processChunk or about to send its count
HoldsChunk(w) == wk[w].pc \in {"line", "load", "cas", "send"}

\* C16: a chunk leaves the work queue only into the hands of one worker; a worker
\* gives up its chunk only by sending one count, the chunk's; a count leaves the
\* result channel only by being added to the aggregator's total, which nothing
\* else changes; and CountUniqueIPs returns a count only when the work queue is
\* closed and empty, every worker has left its loop, the result channel is
\* closed and empty and the aggregator has finished, and what it returns is the
\* aggregator's total.
C16_ReturnAfterQuiescence ==
  [][/\ (prod'.pc # "idle" /\ prod.pc # "idle" /\ Len(chunkChan'.buf) < Len(chunkChan.buf))
          => /\ chunkChan'.buf = Tail(chunkChan.buf)
             /\ \E w \in DOMAIN wk :
                  /\ wk[w].pc = "recv"
                  /\ HoldsChunk(w)'
                  /\ wk'[w].chunk = Head(chunkChan.buf)
                  /\ wk'[w].count = 0
                  /\ \A v \in DOMAIN wk \ {w} : wk'[v] = wk[v]
     /\ \A w \in DOMAIN wk :
          (HoldsChunk(w) /\ w \in DOMAIN wk' /\ ~HoldsChunk(w)')
            => /\ wk[w].pc = "send"
               /\ wk[w].start = Len(wk[w].chunk)
               /\ resultChan'.buf = Append(resultChan.buf, wk[w].count)
     /\ (prod'.pc # "idle" /\ prod.pc # "idle" /\ resultChan'.buf # resultChan.buf)
          => \/ \E w \in DOMAIN wk : wk[w].pc = "send" /\ wk'[w].pc = "recv"
             \/ /\ resultChan'.buf = Tail(resultChan.buf)
                /\ agg'.total = agg.total + Head(resultChan.buf)
     /\ (prod.pc # "idle" /\ agg'.total # agg.total)
          => resultChan.buf # <<>> /\ resultChan'.buf = Tail(resultChan.buf)
     /\ (impl = "concurrent" /\ Len(results') > Len(results)
           /\ results'[Len(results')].err = "nil")
          => /\ chunkChan.closed /\ chunkChan.buf = <<>>
             /\ \A w \in DOMAIN wk : wk[w].pc = "done"
             /\ wg = 0
             /\ resultChan.closed /\ resultChan.buf = <<>>
             /\ agg.pc = "done" /\ agg' = agg
             /\ results'[Len(results')].count = agg.total]_vars

\* the workers have left and the caller waits for the aggregator, which has two
\* per-chunk counts still to receive
C16_Witness ==
  /\ prod.pc = "reswait"
  /\ agg.pc = "recv"
  /\ Len(resultChan.buf) = 2
  /\ \A w \in DOMAIN wk : wk[w].pc = "done"

\* the shard the line worker w is about to deal with is routed to
NextShard(w) == U32Mod(ParseIPv4(TrimSpace(WorkerRawLine(w))).ip, numShards)

\* C17: a step allocates a shard only if it was not allocated, allocates one
\* shard at a time, zero-filled, for the address the allocating worker is about
\* to set, and leaves every allocated shard's words as they are; a shard once
\* allocated stays allocated; a worker that loads or compare-and-swaps a word
\* does so in an allocated shard; and only shards some valid address of the
\* file is routed to are allocated.
C17_ShardAllocatedOnce ==
  /\ [][/\ DOMAIN shards \subseteq DOMAIN shards'
        /\ DOMAIN shards' # DOMAIN shards
             => \E w \in DOMAIN wk :
                  /\ wk[w].pc = "line" /\ wk'[w].pc = "load"
                  /\ DOMAIN shards' = DOMAIN shards \cup {wk'[w].sh}
                  /\ shards'[wk'[w].sh] = <<>>
                  /\ \A sh \in DOMAIN shards : shards'[sh] = shards[sh]
        /\ \A w \in DOMAIN wk :
             (wk[w].pc = "line" /\ w \in DOMAIN wk' /\ wk'[w].pc = "load"
                /\ wk'[w].sh \in DOMAIN shards)
               => shards' = shards]_vars
  /\ [](/\ \A w \in DOMAIN wk : wk[w].pc \in {"load", "cas"} => wk[w].sh \in DOMAIN shards
        /\ DOMAIN shards \subseteq {U32Mod(a, numShards) : a \in Addresses(file)})

\* one worker has allocated a shard and not yet set a bit in it while another
\* is about to make its own first write to the same shard
C17_Witness ==
  \E w, v \in DOMAIN wk :
    /\ w # v
    /\ wk[w].pc = "load"
    /\ shards[wk[w].sh] = <<>>
    /\ wk[v].pc = "line"
    /\ ~Unparseable(WorkerRawLine(v))
    /\ NextShard(v) = wk[w].sh

\* the address whose shard index is sh and whose offset is off
AddressAt(sh, off) == U32(off \div 4, (off % 4) * numShards + sh)

\* C18: for the address a of every line a worker routes, the shard index is
\* below numShards, the offset below bitsPerShard and its word index below
\* wordsPerShard, and a is off * numShards + sh: shard index and offset together
\* give the address back, so no two addresses share a (shard index, offset) pair.
C18_ShardAddressing ==
  [][\A w \in DOMAIN wk :
       (wk[w].pc = "line" /\ w \in DOMAIN wk' /\ wk'[w].pc = "load")
         => /\ wk'[w].sh \in 0..(numShards - 1)
            /\ wk'[w].off \in 0..(bitsPerShard - 1)
            /\ wk'[w].off \div 32 \in 0..(wordsPerShard - 1)
            /\ ParseIPv4(TrimSpace(WorkerRawLine(w))).ok
            /\ AddressAt(wk'[w].sh, wk'[w].off) = ParseIPv4(TrimSpace(WorkerRawLine(w))).ip]_vars

\* 255.255.255.255 has been routed to the last bit of the last shard
C18_Witness ==
  \E w \in DOMAIN wk :
    /\ wk[w].pc = "load"
    /\ wk[w].sh = numShards - 1
    /\ wk[w].off = bitsPerShard - 1

\* the records pass 1 appends to partition i for the lines ls, in order
RECURSIVE AppendedRecords(_, _)
AppendedRecords(ls, i) ==
  IF ls = <<>> THEN <<>>
  ELSE LET line == TrimSpace(Head(ls))
           p == ParseIPv4(line)
       IN  (IF Len(line) # 0 /\ p.ok /\ U32Top(p.ip) = i
              THEN PutUint32(U32Low24(p.ip)) ELSE <<>>)
             \o AppendedRecords(Tail(ls), i)

\* C19: in pass 2 no partition writer is left and every partition file is
\* closed; and when no write has failed each partition file holds, in order,
\* exactly the records pass 1 appended to it, its length is a multiple of 4
\* and each record value is below 2^24, its word index below wordsPerSet.
C19_PartitionFilesComplete ==
  (bk.pc = "pass2")
    => /\ writers = <<>>
       /\ bk.files = {}
       /\ DOMAIN disk \subseteq Buckets
       /\ ~writeFailed
            => LET ls == SplitLines(file)
               IN  \A i \in Buckets :
                     /\ At(disk, i, <<>>) = AppendedRecords(ls, i)
                     /\ Len(At(disk, i, <<>>)) % 4 = 0
                     /\ \A k \in 1..(Len(At(disk, i, <<>>)) \div 4) :
                          /\ Records(At(disk, i, <<>>))[k] < 2 ^ suffixBits
                          /\ Records(At(disk, i, <<>>))[k] \div 32 < wordsPerSet

\* pass 2 is about to start on partition file 1, which holds the records of
\* 1.2.67.4 and 1.2.3.4 in the order of the lines
C19_Witness ==
  /\ file = JoinLines(<<LineD, LineA>>)
  /\ bk.pc = "pass2"
  /\ bk.i = 0
  /\ ~writeFailed
  /\ Records(At(disk, 1, <<>>)) = <<2 * 65536 + 67 * 256 + 4, 2 * 65536 + 3 * 256 + 4>>

\* partition file i ends with 1 to 3 bytes that are no full record
EndsShort(i) == Len(At(disk, i, <<>>)) % 4 \in 1..3

\* C20: the iteration of pass 2 that gets through a partition file ending with
\* 1 to 3 bytes short of a record adds the number of distinct complete records
\* of the file to the total, returns nothing and goes on with the next
\* partition; and after the last partition the call returns the total with a nil
\* error, whichever partition files ended short.
C20_ShortTailIsEndOfStream ==
  [][/\ (/\ bk.pc = "pass2" /\ bk.i < numBuckets /\ EndsShort(bk.i)
          /\ results' = results /\ bk' # bk)
           => /\ bk'.pc = "pass2"
              /\ bk'.i = bk.i + 1
              /\ bk'.total = bk.total + Cardinality(RecordSet(bk.i))
              /\ disk' = disk
     /\ (/\ bk.pc = "pass2" /\ bk.i = numBuckets /\ bk' # bk
          /\ \E i \in Buckets : EndsShort(i))
           => results' = Append(results, [count |-> bk.total, err |-> "nil"])]_vars

\* the flush of the record of 1.2.3.4 broke off after two bytes; pass 2 has
\* counted the one complete record of partition file 1 and has gone on
C20_Witness ==
  /\ file = JoinLines(<<LineD, LineA>>)
  /\ bk.pc = "pass2"
  /\ bk.i = 2
  /\ Len(At(disk, 1, <<>>)) = 6
  /\ EndsShort(1)
  /\ bk.total = 1

=============================================================================
